---- MODULE Spec2Model ----
(***************************************************************************)
(* Flask RIP (flask_rip.py): declarative routing / serialization glue.     *)
(*                                                                         *)
(* Python strings are modelled as sequences of one-character strings, so   *)
(* that concatenation, joining, lower-casing and the camel_to_kebab        *)
(* rewriting are computed character by character.  None and '' are both    *)
(* falsy everywhere flask_rip.py tests a string, and both are modelled by   *)
(* the empty sequence.                                                     *)
(***************************************************************************)
EXTENDS Integers, Sequences, FiniteSets, TLC

\* ------------------------------------------------------------------------
\* Strings
\* ------------------------------------------------------------------------
None == <<>>

UpperChars == <<"A","B","C","D","E","F","G","H","I","J","K","L","M",
                "N","O","P","Q","R","S","T","U","V","W","X","Y","Z">>
LowerChars == <<"a","b","c","d","e","f","g","h","i","j","k","l","m",
                "n","o","p","q","r","s","t","u","v","w","x","y","z">>
DigitChars == {"0","1","2","3","4","5","6","7","8","9"}

IsUpper(c) == \E i \in 1..Len(UpperChars) : UpperChars[i] = c
IsLower(c) == \E i \in 1..Len(LowerChars) : LowerChars[i] = c
IsDigit(c) == c \in DigitChars

LowerChar(c) ==
    IF IsUpper(c)
    THEN LowerChars[CHOOSE i \in 1..Len(UpperChars) : UpperChars[i] = c]
    ELSE c

\* str.lower()
StrLower(s) == [i \in 1..Len(s) |-> LowerChar(s[i])]

\* str.replace(old, new) for one-character old and new
StrReplace(s, old, new) == [i \in 1..Len(s) |-> IF s[i] = old THEN new ELSE s[i]]

\* glue.join(parts)
RECURSIVE StrJoin(_, _)
StrJoin(glue, parts) ==
    IF Len(parts) = 0 THEN <<>>
    ELSE IF Len(parts) = 1 THEN parts[1]
    ELSE parts[1] \o glue \o StrJoin(glue, Tail(parts))

Truthy(s) == Len(s) > 0

\* x or y, on strings
StrOr(x, y) == IF Truthy(x) THEN x ELSE y

IsPrefix(p, s) == Len(p) <= Len(s) /\ SubSeq(s, 1, Len(p)) = p

\* last index of the run of upper-case letters that starts at i (i-1: none)
UpperRunEnd(s, i) ==
    CHOOSE k \in (i-1)..Len(s) :
        /\ \A j \in i..k : IsUpper(s[j])
        /\ (k = Len(s) \/ ~IsUpper(s[k+1]))

\* _FIRST_CAP_RE.sub(r'\1-\2', name), scanning from position i:
\* ([A-Z]+)([A-Z][a-z]) matches at i iff the upper-case run from i has at
\* least two letters and is followed by a lower-case letter.
RECURSIVE FirstCapSub(_, _)
FirstCapSub(s, i) ==
    IF i > Len(s) THEN <<>>
    ELSE LET k == UpperRunEnd(s, i)
         IN IF k >= i + 1 /\ k + 1 <= Len(s) /\ IsLower(s[k+1])
            THEN SubSeq(s, i, k-1) \o <<"-">> \o SubSeq(s, k, k+1)
                     \o FirstCapSub(s, k + 2)
            ELSE <<s[i]>> \o FirstCapSub(s, i + 1)

\* _ALL_CAP_RE.sub(r'\1-\2', name1), scanning from position i
RECURSIVE AllCapSub(_, _)
AllCapSub(s, i) ==
    IF i > Len(s) THEN <<>>
    ELSE IF /\ i + 1 <= Len(s)
            /\ (IsLower(s[i]) \/ IsDigit(s[i]))
            /\ IsUpper(s[i+1])
         THEN <<s[i], "-", s[i+1]>> \o AllCapSub(s, i + 2)
         ELSE <<s[i]>> \o AllCapSub(s, i + 1)

camel_to_kebab(name) ==
    LET name1 == FirstCapSub(name, 1)
        name2 == StrLower(AllCapSub(name1, 1))
    IN StrReplace(name2, "_", "-")

\* ------------------------------------------------------------------------
\* Program constants
\* ------------------------------------------------------------------------
IMPLICIT == 1
EXPLICIT == 2
ENDPOINT_GLUE == <<":">>
DEFAULT_OUT_CODE == 200

\* bit test  base_method_path & bit  (bit is 1 or 2)
HasBit(mask, bit) == (mask \div bit) % 2 = 1

DELETE == <<"D","E","L","E","T","E">>
GET == <<"G","E","T">>
HEAD == <<"H","E","A","D">>
OPTIONS == <<"O","P","T","I","O","N","S">>
PATCH == <<"P","A","T","C","H">>
POST == <<"P","O","S","T">>
PUT == <<"P","U","T">>

\* keys and values of _Resource.REQUESTMETHOD_TO_GETDATA
REQUESTMETHOD_TO_GETDATA ==
    [m \in {DELETE, GET, HEAD, OPTIONS, PATCH, POST, PUT} |->
        IF m \in {DELETE, GET, HEAD, OPTIONS} THEN "request.args"
        ELSE "request.get_json"]

\* the callables a path_from_endpoint argument can be; "None" is "not given"
PfeNone == "None"
ApplyPfe(f, name) ==
    CASE f = "camel_to_kebab" -> camel_to_kebab(name)
      [] f = "str.lower" -> StrLower(name)

\* self.__class__.__name__ of an API object
ApiClassName == <<"A","P","I">>

\* ------------------------------------------------------------------------
\* Names used by the application
\* ------------------------------------------------------------------------
NoClass == <<>>
\* every resource class has one undecorated method of this name
PlainName == <<"h">>
\* sorted() order of the method names inspect.getmembers can meet
SortedNames == << <<"g","e","t">>, <<"h">>, <<"l","s">> >>

\* in_schema.__class__.__name__
SchemaClassName(schema) ==
    CASE schema = "InS" -> <<"I","n","S">>
      [] schema = "InSStrict" -> <<"I","n","S","S","t","r","i","c","t">>
      [] OTHER -> <<>>

VARIABLES
    apis,       \* the API objects, in creation order
    resources,  \* the _Resource objects, in creation order
    handlers,   \* the functions of the application: the `inner` wrappers the
                \* verb decorators returned, and undecorated methods
    added,      \* the add_resource calls made so far, with their arguments
    calls,      \* calls made to app.add_url_rule and to the OpenAPI spec
    routed,     \* the _route_function invocations so far: handler, instance,
                \* add_resource call (0: none) and resource object
    mm,         \* major version of the installed Marshmallow (2 or 3)
    req,        \* the request being served by an `inner` wrapper, if any
    nreq        \* number of requests dispatched so far

vars == <<apis, resources, handlers, added, calls, routed, mm, req, nreq>>

routing == <<apis, resources, handlers, added, calls, routed>>

\* ------------------------------------------------------------------------
\* class API
\* ------------------------------------------------------------------------
\* API.__init__; parent is the record of parent_api (unused for a root, whose
\* parent_api is 0); rfc is the index of the ResourceFromClass object it
\* creates.  arg_endpoint and arg_path keep the arguments as given;
\* own_endpoint and own_path keep the API's own endpoint name and path
\* segment, before the parent's are prepended; arg_spec and arg_conf keep
\* the openapi_spec and openapi_conf arguments.
API__init__(parent, parent_api, base_path, base_endpoint, path_from_endpoint, base_method_path, openapi_spec, openapi_conf, rfc) ==
    LET spec == IF openapi_conf # "None" THEN "APISpec(conf)"
                ELSE IF openapi_spec # "None" THEN openapi_spec
                ELSE "None"
    IN IF parent_api # 0
       THEN LET ep == StrOr(base_endpoint, ApiClassName)
                bp == StrOr(base_path,
                            <<"/">> \o ApplyPfe(path_from_endpoint, ApiClassName))
            IN [parent_api |-> parent_api,
                openapi_spec |-> spec,
                path_from_endpoint |->
                    IF path_from_endpoint # PfeNone THEN path_from_endpoint
                    ELSE parent.path_from_endpoint,
                base_method_path |->
                    IF base_method_path # 0 THEN base_method_path
                    ELSE parent.base_method_path,
                base_endpoint |->
                    IF Truthy(parent.base_endpoint)
                    THEN StrJoin(ENDPOINT_GLUE, <<parent.base_endpoint, ep>>)
                    ELSE ep,
                base_path |->
                    IF Truthy(parent.base_path)
                    THEN parent.base_path \o bp
                    ELSE bp,
                subapis |-> <<>>,
                resource_from_class |-> rfc,
                arg_endpoint |-> base_endpoint,
                arg_path |-> base_path,
                own_endpoint |-> ep,
                own_path |-> bp,
                arg_spec |-> openapi_spec,
                arg_conf |-> openapi_conf]
       ELSE [parent_api |-> 0,
             openapi_spec |-> spec,
             path_from_endpoint |-> path_from_endpoint,
             base_method_path |-> base_method_path,
             base_endpoint |-> base_endpoint,
             base_path |-> base_path,
             subapis |-> <<>>,
             resource_from_class |-> rfc,
             arg_endpoint |-> base_endpoint,
             arg_path |-> base_path,
             own_endpoint |-> base_endpoint,
             own_path |-> base_path,
             arg_spec |-> openapi_spec,
             arg_conf |-> openapi_conf]

\* _Resource.__init__ / ResourceFromClass.__init__: baseabsrule and
\* res_endpoint do not exist before post_init.  endpoint, res_path and
\* resvar_path keep the arguments create_resource was called with.
Resource__init__(api, kind) ==
    [api |-> api, kind |-> kind, inited |-> FALSE,
     baseabsrule |-> <<>>, res_endpoint |-> <<>>,
     endpoint |-> <<>>, res_path |-> <<>>, resvar_path |-> <<>>]

\* post_init joining the endpoint names whether or not the API has one
post_init_stray(res, api, endpoint, res_path, resvar_path) ==
    [res EXCEPT
        !.inited = TRUE,
        !.baseabsrule = StrOr(api.base_path, <<>>) \o res_path
                            \o StrOr(resvar_path, <<>>),
        !.res_endpoint = StrJoin(ENDPOINT_GLUE, <<api.base_endpoint, endpoint>>)]

\* post_init keeping the prefixes of the first resource it was called for
post_init_first(res, api, endpoint, res_path, resvar_path) ==
    IF res.inited THEN res
    ELSE [res EXCEPT
            !.inited = TRUE,
            !.baseabsrule = StrOr(api.base_path, <<>>) \o res_path
                                \o StrOr(resvar_path, <<>>),
            !.res_endpoint = IF Truthy(api.base_endpoint)
                             THEN StrJoin(ENDPOINT_GLUE, <<api.base_endpoint, endpoint>>)
                             ELSE endpoint]

\* _Resource.post_init
post_init(res, api, endpoint, res_path, resvar_path) ==
    [res EXCEPT
        !.inited = TRUE,
        !.baseabsrule = StrOr(api.base_path, <<>>) \o res_path
                            \o StrOr(resvar_path, <<>>),
        !.res_endpoint = IF Truthy(api.base_endpoint)
                         THEN StrJoin(ENDPOINT_GLUE, <<api.base_endpoint, endpoint>>)
                         ELSE endpoint]

\* ------------------------------------------------------------------------
\* Calls made to the host framework and to the OpenAPI spec object, in
\* order.  type is "add_url_rule" (app.add_url_rule), "path"
\* (openapi_spec.path) or "schema" (openapi_spec.components.schema).
\* view = [h, inst]: handler h, bound to resource instance inst (0: the
\* plain function).  route numbers the _route_function invocation and reg
\* the add_resource call that made the entry (0: none).
\* ------------------------------------------------------------------------
NoView == [h |-> 0, inst |-> 0]

AddUrlRule(a, rule, endpoint, view, http_method, route, reg) ==
    [type |-> "add_url_rule", api |-> a, rule |-> rule, endpoint |-> endpoint,
     view |-> view, methods |-> <<http_method>>, name |-> <<>>,
     route |-> route, reg |-> reg]

OpenapiPath(a, view, route, reg) ==
    [type |-> "path", api |-> a, rule |-> <<>>, endpoint |-> <<>>,
     view |-> view, methods |-> <<>>, name |-> <<>>,
     route |-> route, reg |-> reg]

OpenapiSchema(a, name) ==
    [type |-> "schema", api |-> a, rule |-> <<>>, endpoint |-> <<>>,
     view |-> NoView, methods |-> <<>>, name |-> name,
     route |-> 0, reg |-> 0]

\* _route_function testing the EXPLICIT bit only when IMPLICIT is not set
_route_function_elif(res, fname, var_path, http_method, action, view, route, reg) ==
    LET api == apis[res.api]
        act == StrOr(action, fname)
        baseabsrule == res.baseabsrule \o StrOr(var_path, <<>>)
        absrule == StrJoin(<<"/">>, <<baseabsrule, act>>)
        endpoint == StrJoin(ENDPOINT_GLUE, <<res.res_endpoint, fname>>)
        implicit == AddUrlRule(res.api, baseabsrule, endpoint, view,
                               http_method, route, reg)
        explicit == AddUrlRule(res.api, absrule, endpoint, view,
                               http_method, route, reg)
    IN (IF act = StrLower(http_method)
        THEN (IF HasBit(api.base_method_path, IMPLICIT) THEN <<implicit>>
              ELSE IF HasBit(api.base_method_path, EXPLICIT) THEN <<explicit>>
              ELSE <<>>)
        ELSE <<explicit>>)
       \o (IF api.openapi_spec # "None"
           THEN <<OpenapiPath(res.api, view, route, reg)>> ELSE <<>>)

\* _route_function telling the OpenAPI spec of the view with every rule
_route_function_pathperrule(res, fname, var_path, http_method, action, view, route, reg) ==
    LET api == apis[res.api]
        act == StrOr(action, fname)
        baseabsrule == res.baseabsrule \o StrOr(var_path, <<>>)
        absrule == StrJoin(<<"/">>, <<baseabsrule, act>>)
        endpoint == StrJoin(ENDPOINT_GLUE, <<res.res_endpoint, fname>>)
        path == IF api.openapi_spec # "None"
                THEN <<OpenapiPath(res.api, view, route, reg)>> ELSE <<>>
        implicit == <<AddUrlRule(res.api, baseabsrule, endpoint, view,
                                 http_method, route, reg)>> \o path
        explicit == <<AddUrlRule(res.api, absrule, endpoint, view,
                                 http_method, route, reg)>> \o path
    IN IF act = StrLower(http_method)
       THEN (IF HasBit(api.base_method_path, IMPLICIT) THEN implicit ELSE <<>>)
            \o (IF HasBit(api.base_method_path, EXPLICIT) THEN explicit ELSE <<>>)
       ELSE explicit

\* _Resource._route_function: the calls it makes, in order
_route_function(res, fname, var_path, http_method, action, view, route, reg) ==
    LET api == apis[res.api]
        act == StrOr(action, fname)
        baseabsrule == res.baseabsrule \o StrOr(var_path, <<>>)
        absrule == StrJoin(<<"/">>, <<baseabsrule, act>>)
        endpoint == StrJoin(ENDPOINT_GLUE, <<res.res_endpoint, fname>>)
        implicit == AddUrlRule(res.api, baseabsrule, endpoint, view,
                               http_method, route, reg)
        explicit == AddUrlRule(res.api, absrule, endpoint, view,
                               http_method, route, reg)
    IN (IF act = StrLower(http_method)
        THEN (IF HasBit(api.base_method_path, IMPLICIT)
              THEN <<implicit>> ELSE <<>>)
             \o (IF HasBit(api.base_method_path, EXPLICIT)
                 THEN <<explicit>> ELSE <<>>)
        ELSE <<explicit>>)
       \o (IF api.openapi_spec # "None"
           THEN <<OpenapiPath(res.api, view, route, reg)>> ELSE <<>>)

\* a hook that routes at once for every kind of resource
_route_function_hook_always(res, fname, var_path, http_method, action, view, route) ==
    _route_function(res, fname, var_path, http_method, action, view, route, 0)

\* _route_function_hook: ResourceFromFunctions routes at once,
\* ResourceFromClass does nothing
_route_function_hook(res, fname, var_path, http_method, action, view, route) ==
    IF res.kind = "functions"
    THEN _route_function(res, fname, var_path, http_method, action, view, route, 0)
    ELSE <<>>

\* the bound methods inspect.getmembers(resource, ismethod) yields for an
\* instance of class cls, sorted by name; a later def of a name replaces an
\* earlier one in the class namespace
RECURSIVE getmembers(_, _)
getmembers(cls, i) ==
    IF i > Len(SortedNames) THEN <<>>
    ELSE LET defs == {h \in 1..Len(handlers) :
                         handlers[h].owner = cls /\ handlers[h].name = SortedNames[i]}
         IN (IF defs = {} THEN <<>>
             ELSE <<CHOOSE h \in defs : \A g \in defs : g <= h>>)
            \o getmembers(cls, i + 1)

\* the loop of ResourceFromClass.post_init over the members ms[i..]
RECURSIVE RouteMembers(_, _, _, _, _, _)
RouteMembers(ms, i, res, inst, route, reg) ==
    IF i > Len(ms) THEN <<>>
    ELSE LET f == handlers[ms[i]]
         IN IF ~f.decorated
            THEN RouteMembers(ms, i + 1, res, inst, route, reg)
            ELSE _route_function(res, f.name, f._var_path, f._http_method,
                                 f._action, [h |-> ms[i], inst |-> inst],
                                 route + 1, reg)
                 \o RouteMembers(ms, i + 1, res, inst, route + 1, reg)

\* the _route_function invocations that loop makes
RECURSIVE RoutedMembers(_, _, _, _, _)
RoutedMembers(ms, i, r, inst, reg) ==
    IF i > Len(ms) THEN <<>>
    ELSE (IF handlers[ms[i]].decorated
          THEN <<[h |-> ms[i], inst |-> inst, reg |-> reg, res |-> r]>>
          ELSE <<>>)
         \o RoutedMembers(ms, i + 1, r, inst, reg)

\* app.add_url_rule refuses an endpoint that is already mapped to another
\* view function
FlaskAccepts(new) ==
    \A i \in 1..Len(new) : \A j \in 1..Len(calls) :
        (new[i].type = "add_url_rule" /\ calls[j].type = "add_url_rule"
            /\ new[i].endpoint = calls[j].endpoint)
        => new[i].view = calls[j].view

PlainMethod(cls) ==
    [name |-> PlainName, owner |-> cls, res |-> 0, decorated |-> FALSE,
     _var_path |-> None, _http_method |-> None, _action |-> None,
     in_schema |-> "None", out_schema |-> "None", in_get_data |-> "None",
     out_code |-> DEFAULT_OUT_CODE]

\* ------------------------------------------------------------------------
\* Serving a request: the `inner` wrapper of _make_decorator
\* ------------------------------------------------------------------------
\* Values that flow through a request.  kind is "raw" (request data as the
\* framework hands it out), "loaded" (what Schema.load makes of it),
\* "UnmarshalResult" (Marshmallow 2: a (data, errors) pair whose data is
\* the loaded value), "out" (a handler's return value) or "json" (what
\* out_schema.jsonify makes of it).  src and id say where and in which
\* request the data was read; valid says whether it satisfies the schemas.
NoData == [kind |-> "None", src |-> "None", id |-> 0, valid |-> TRUE,
           val |-> "None", errors |-> FALSE]

Raw(src, id, valid) ==
    [kind |-> "raw", src |-> src, id |-> id, valid |-> valid,
     val |-> "None", errors |-> FALSE]

Idle ==
    [pc |-> "idle", h |-> 0, args |-> <<>>, id |-> 0, valid |-> TRUE,
     log |-> <<>>, indata |-> NoData, called |-> <<>>, outdata |-> NoData,
     body |-> NoData, code |-> 0, error |-> "None"]

\* the sources of request data: flask.request of the request being served
RequestSource(r, src) == Raw(src, r.id, r.valid)

\* a choice of get_data that ignores in_get_data
get_data_verb(f) == REQUESTMETHOD_TO_GETDATA[f._http_method]

\* get_data as chosen at lines 206-209: the name of the callable
get_data(f) ==
    IF f.in_get_data # "None" THEN f.in_get_data
    ELSE REQUESTMETHOD_TO_GETDATA[f._http_method]

\* in_schema.load(data).  Marshmallow 3 returns the loaded data or raises
\* ValidationError; Marshmallow 2 returns an UnmarshalResult, with errors
\* for invalid data, unless the schema is strict, and then it raises.
SchemaRaises(schema, data) ==
    /\ ~data.valid
    /\ (mm = 3 \/ schema = "InSStrict")

SchemaLoad(schema, data) ==
    IF mm = 3
    THEN [data EXCEPT !.kind = "loaded"]
    ELSE [data EXCEPT !.kind = "UnmarshalResult", !.errors = ~data.valid]

\* UnmarshalResult.data
ResultData(result) == [result EXCEPT !.kind = "loaded", !.errors = FALSE]

\* out_schema.jsonify(outdata)
Jsonify(outdata) == [outdata EXCEPT !.kind = "json"]

\* a _call_function that passes the input first to methods too
_call_function_inputfirst(res, indata, args) == <<indata>> \o args

\* _call_function of the resource object whose decorator made the wrapper:
\* the positional arguments the user function is called with
_call_function(res, indata, args) ==
    IF res.kind = "functions"
    THEN <<indata>> \o args
    ELSE <<args[1], indata>> \o Tail(args)

\* the framework dispatches a request to a registered view function; a
\* bound method receives its resource instance as first argument
Dispatch(valid) ==
    /\ req.pc = "idle"
    /\ \E i \in 1..Len(calls) :
          /\ calls[i].type = "add_url_rule"
          /\ req' = [Idle EXCEPT
                !.pc = "get_data",
                !.h = calls[i].view.h,
                !.args = IF calls[i].view.inst = 0 THEN <<>>
                         ELSE <<Raw("self", calls[i].view.inst, TRUE)>>,
                !.id = nreq + 1,
                !.valid = valid]
    /\ nreq' = nreq + 1
    /\ UNCHANGED <<routing, mm>>

\* line 233, first half: get_data()
GetData ==
    /\ req.pc = "get_data"
    /\ LET f == handlers[req.h]
           src == get_data(f)
       IN req' = [req EXCEPT
                !.pc = IF f.in_schema # "None" THEN "load" ELSE "unwrap",
                !.log = Append(@, src),
                !.indata = RequestSource(req, src)]
    /\ UNCHANGED <<routing, mm, nreq>>

\* line 233, second half: in_schema.load(...)
Load ==
    /\ req.pc = "load"
    /\ LET f == handlers[req.h]
       IN IF SchemaRaises(f.in_schema, req.indata)
          THEN req' = [req EXCEPT !.pc = "raised", !.log = Append(@, "load"),
                                  !.error = "ValidationError"]
          ELSE req' = [req EXCEPT !.pc = "unwrap", !.log = Append(@, "load"),
                                  !.indata = SchemaLoad(f.in_schema, @)]
    /\ UNCHANGED <<routing, mm, nreq>>

\* an unwrapping that never looks at the errors of the result
UnwrapRaises_never(indata) == FALSE

\* lines 235-238: under Marshmallow 2 (UnmarshalResult is None under
\* Marshmallow 3) a result with errors raises ValidationError(indata.errors)
UnwrapRaises(indata) ==
    mm = 2 /\ indata.kind = "UnmarshalResult" /\ indata.errors

\* lines 235-239: a Marshmallow 2 result is replaced by its data
UnwrapData(indata) ==
    IF mm = 2 /\ indata.kind = "UnmarshalResult" THEN ResultData(indata)
    ELSE indata

Unwrap ==
    /\ req.pc = "unwrap"
    /\ IF UnwrapRaises(req.indata)
       THEN req' = [req EXCEPT !.pc = "raised", !.error = "ValidationError"]
       ELSE req' = [req EXCEPT !.pc = "call", !.indata = UnwrapData(@)]
    /\ UNCHANGED <<routing, mm, nreq>>

\* lines 242-243: the user function returns out, or raises
Call(out, raises) ==
    /\ req.pc = "call"
    /\ LET f == handlers[req.h]
           passed == _call_function(resources[f.res], req.indata, req.args)
       IN IF raises
          THEN req' = [req EXCEPT !.pc = "raised", !.log = Append(@, "call"),
                                  !.called = passed, !.error = "HandlerError"]
          ELSE req' = [req EXCEPT !.pc = "marshal", !.log = Append(@, "call"),
                                  !.called = passed,
                                  !.outdata = [NoData EXCEPT !.kind = "out",
                                                  !.src = "handler", !.val = out]]
    /\ UNCHANGED <<routing, mm, nreq>>

\* line 245: marshal_data(outdata), out_code
Marshal ==
    /\ req.pc = "marshal"
    /\ LET f == handlers[req.h]
       IN req' = [req EXCEPT
                !.pc = "done",
                !.log = IF f.out_schema # "None"
                        THEN @ \o <<"jsonify", "return">> ELSE Append(@, "return"),
                !.body = IF f.out_schema # "None"
                         THEN Jsonify(req.outdata) ELSE req.outdata,
                !.code = f.out_code]
    /\ UNCHANGED <<routing, mm, nreq>>

\* the framework takes the response, or the exception, and the request ends
Finish ==
    /\ req.pc \in {"done", "raised"}
    /\ req' = Idle
    /\ UNCHANGED <<routing, mm, nreq>>

\* ------------------------------------------------------------------------
\* Operations
\* ------------------------------------------------------------------------
\* API(app, base_path, base_endpoint, path_from_endpoint=..., ...)
InitWith(paths, endpoints, pfes, bmps, confs, specs, classes, mms) ==
    /\ \E bp \in paths, ep \in endpoints, pfe \in pfes, bmp \in bmps,
          conf \in confs, spec \in specs :
          apis = <<API__init__(<<>>, 0, bp, ep, pfe, bmp, spec, conf, 1)>>
    /\ resources = <<Resource__init__(1, "class")>>
    /\ handlers = [i \in 1..Len(classes) |-> PlainMethod(classes[i])]
    /\ added = <<>>
    /\ calls = <<>>
    /\ routed = <<>>
    /\ mm \in mms
    /\ req = Idle
    /\ nreq = 0

\* API.append_api
append_api(p, base_endpoint, base_path) ==
    /\ LET n == Len(apis) + 1
           rfc == Len(resources) + 1
           subapi == API__init__(apis[p], p, base_path, base_endpoint,
                                 "camel_to_kebab", IMPLICIT, "None", "None", rfc)
       IN /\ apis' = Append([apis EXCEPT ![p].subapis = Append(@, n)], subapi)
          /\ resources' = Append(resources, Resource__init__(n, "class"))
    /\ UNCHANGED <<handlers, added, calls, routed, mm, req, nreq>>

\* API.create_resource -> ResourceFromFunctions.__init__
create_resource(a, endpoint, res_path, resvar_path) ==
    /\ LET api == apis[a]
           respath == StrOr(res_path,
                            <<"/">> \o ApplyPfe(api.path_from_endpoint, endpoint))
       IN resources' = Append(resources,
              [post_init(Resource__init__(a, "functions"), api, endpoint,
                         respath, resvar_path)
                  EXCEPT !.endpoint = endpoint, !.res_path = res_path,
                         !.resvar_path = resvar_path])
    /\ UNCHANGED <<apis, handlers, added, calls, routed, mm, req, nreq>>

\* a verb decorator of resource object r (_make_decorator with in_method
\* bound by partialmethod) applied to the function fname; owner is the class
\* whose body defines the function, NoClass for a module-level function
decorate(r, owner, fname, in_method, var_path, action, in_schema, out_schema, in_get_data, out_code) ==
    /\ (in_get_data = "None") => in_method \in DOMAIN REQUESTMETHOD_TO_GETDATA
    /\ LET res == resources[r]
           h == Len(handlers) + 1
           schema == IF in_schema # "None" /\ apis[res.api].openapi_spec # "None"
                     THEN <<OpenapiSchema(res.api, SchemaClassName(in_schema))>>
                     ELSE <<>>
           hook == _route_function_hook(res, fname, var_path, in_method, action,
                                        [h |-> h, inst |-> 0], Len(routed) + 1)
       IN /\ (res.kind = "functions") <=> (owner = NoClass)
          /\ FlaskAccepts(hook)
          /\ calls' = calls \o schema \o hook
          /\ routed' = IF res.kind = "functions"
                       THEN Append(routed, [h |-> h, inst |-> 0, reg |-> 0, res |-> r])
                       ELSE routed
          /\ handlers' = Append(handlers,
                [name |-> fname, owner |-> owner, res |-> r, decorated |-> TRUE,
                 _var_path |-> var_path, _http_method |-> in_method,
                 _action |-> action, in_schema |-> in_schema,
                 out_schema |-> out_schema, in_get_data |-> in_get_data,
                 out_code |-> out_code])
    /\ UNCHANGED <<apis, resources, added, mm, req, nreq>>

\* API.add_resource (and API.resource, which only calls it) ->
\* ResourceFromClass.post_init
add_resource(a, cls, res_path, resvar_path) ==
    /\ LET api == apis[a]
           r == api.resource_from_class
           inst == Len(added) + 1
           respath == StrOr(res_path,
                            <<"/">> \o ApplyPfe(api.path_from_endpoint, cls))
           res == post_init(resources[r], api, cls, respath, resvar_path)
           ms == getmembers(cls, 1)
           new == RouteMembers(ms, 1, res, inst, Len(routed), inst)
       IN /\ FlaskAccepts(new)
          /\ resources' = [resources EXCEPT ![r] = res]
          /\ calls' = calls \o new
          /\ routed' = routed \o RoutedMembers(ms, 1, r, inst, inst)
          /\ added' = Append(added, [api |-> a, cls |-> cls, res_path |-> res_path,
                                     resvar_path |-> resvar_path])
    /\ UNCHANGED <<apis, handlers, mm, req, nreq>>

\* ------------------------------------------------------------------------
\* The operations over sets of inputs, up to a number of objects
\* ------------------------------------------------------------------------
NumFuncRes == Cardinality({r \in 1..Len(resources) : resources[r].kind = "functions"})
NumDecorators == Cardinality({h \in 1..Len(handlers) : handlers[h].decorated})

\* args: pairs <<base_endpoint, base_path>>
AppendApiIn(max, args) ==
    /\ Len(apis) < max
    /\ \E p \in 1..Len(apis), arg \in args : append_api(p, arg[1], arg[2])

\* args: pairs <<res_path, resvar_path>>
CreateResourceIn(max, endpoints, args) ==
    /\ NumFuncRes < max
    /\ \E a \in 1..Len(apis), ep \in endpoints, arg \in args :
          create_resource(a, ep, arg[1], arg[2])

\* decls: tuples <<function name, verb, var_path, action>>
DecorateIn(max, owners, decls, inschemas, outschemas, getdatas, codes) ==
    /\ NumDecorators < max
    /\ \E r \in 1..Len(resources), owner \in owners, d \in decls,
          ins \in inschemas, outs \in outschemas, gd \in getdatas, code \in codes :
          decorate(r, owner, d[1], d[2], d[3], d[4], ins, outs, gd, code)

\* args: pairs <<res_path, resvar_path>>
AddResourceIn(max, classes, args) ==
    /\ Len(added) < max
    /\ \E a \in 1..Len(apis), cls \in classes, arg \in args :
          add_resource(a, cls, arg[1], arg[2])

DispatchIn(max) ==
    /\ nreq < max
    /\ \E valid \in BOOLEAN : Dispatch(valid)

CallIn(outs) ==
    \/ \E out \in outs : Call(out, FALSE)
    \/ Call("None", TRUE)

Serve(outs) == GetData \/ Load \/ Unwrap \/ CallIn(outs) \/ Marshal \/ Finish

\* names used by the applications below
get == <<"g","e","t">>
ls == <<"l","s">>
ClassA == <<"U","L">>
ClassB == <<"T","o","D","o">>
FuncRes == <<"m","y","F">>
VarI == <<"/","<","i",">">>
VarK == <<"/","<","k",">">>
Defaults == <<None, None>>

\* ------------------------------------------------------------------------
\* SpecNest: chains of nested APIs, resources of functions on any of them
\* ------------------------------------------------------------------------
NestMaxApis == 3
NestMaxRes == 1
NestMaxHandlers == 1

InitNest ==
    InitWith({None, <<"/","v">>}, {None, <<"R">>}, {"camel_to_kebab"}, {IMPLICIT},
             {"None"}, {"None"}, <<>>, {3})

NestSubApis == {<<<<"a","U">>, None>>, <<<<"b","V">>, <<"/","x">>>>}
NestResArgs == {<<None, VarI>>, <<<<"/","r">>, None>>}

NestAppendApi == AppendApiIn(NestMaxApis, NestSubApis)
NestCreateResource == CreateResourceIn(NestMaxRes, {FuncRes}, NestResArgs)
NestDecorate ==
    DecorateIn(NestMaxHandlers, {NoClass}, {<<get, POST, VarK, None>>},
               {"None"}, {"None"}, {"None"}, {DEFAULT_OUT_CODE})

NextNest == NestAppendApi \/ NestCreateResource \/ NestDecorate

SpecNest == InitNest /\ [][NextNest]_vars

\* ------------------------------------------------------------------------
\* SpecInherit: sub-APIs of a root with any routing settings
\* ------------------------------------------------------------------------
InheritMaxApis == 3
InheritMaxRes == 1
InheritMaxAdds == 1
InheritMaxHandlers == 1

InitInherit ==
    InitWith({None}, {None}, {"camel_to_kebab", "str.lower"}, 0..3,
             {"None"}, {"None"}, <<ClassB>>, {3})

InheritSubApis ==
    {<<<<"a","U">>, None>>, <<<<"b","V">>, None>>, <<<<"a","U">>, <<"/","x">>>>}

InheritAppendApi == AppendApiIn(InheritMaxApis, InheritSubApis)
InheritCreateResource == CreateResourceIn(InheritMaxRes, {FuncRes}, {Defaults})
InheritAddResource == AddResourceIn(InheritMaxAdds, {ClassB}, {Defaults})
InheritDecorate ==
    DecorateIn(InheritMaxHandlers, {NoClass}, {<<get, GET, None, None>>},
               {"None"}, {"None"}, {"None"}, {DEFAULT_OUT_CODE})

NextInherit ==
    InheritAppendApi \/ InheritCreateResource \/ InheritAddResource \/ InheritDecorate

SpecInherit == InitInherit /\ [][NextInherit]_vars

\* ------------------------------------------------------------------------
\* SpecRoute: one API, handlers of every shape on a class and on functions
\* ------------------------------------------------------------------------
RouteMaxRes == 1
RouteMaxAdds == 1
RouteMaxHandlers == 2

InitRoute ==
    InitWith({<<"/","v">>}, {None}, {"camel_to_kebab"}, 0..3,
             {"None"}, {"None"}, <<ClassA>>, {3})

RouteCreateResource == CreateResourceIn(RouteMaxRes, {FuncRes}, {Defaults})
RouteOwners == {NoClass, ClassA}
RouteDecls ==
    {<<get, GET, None, None>>, <<get, POST, None, None>>,
     <<ls, GET, VarK, None>>, <<ls, GET, VarK, get>>, <<ls, POST, None, get>>}

RouteDecorate ==
    DecorateIn(RouteMaxHandlers, RouteOwners, RouteDecls,
               {"None"}, {"None"}, {"None"}, {DEFAULT_OUT_CODE})
RouteAddResource == AddResourceIn(RouteMaxAdds, {ClassA}, {<<None, VarI>>})

NextRoute == RouteCreateResource \/ RouteDecorate \/ RouteAddResource

SpecRoute == InitRoute /\ [][NextRoute]_vars

\* ------------------------------------------------------------------------
\* SpecOpenapi: APIs with and without an OpenAPI spec
\* ------------------------------------------------------------------------
OpenapiMaxRes == 1
OpenapiMaxAdds == 1
OpenapiMaxHandlers == 2

InitOpenapi ==
    InitWith({None}, {None}, {"camel_to_kebab"}, {IMPLICIT, IMPLICIT + EXPLICIT},
             {"None", "conf"}, {"None", "spec"}, <<ClassA>>, {3})

OpenapiCreateResource == CreateResourceIn(OpenapiMaxRes, {FuncRes}, {Defaults})
OpenapiOwners == {NoClass, ClassA}
OpenapiDecls == {<<get, GET, None, None>>, <<ls, GET, None, None>>}
OpenapiInSchemas == {"None", "InS"}

OpenapiDecorate ==
    DecorateIn(OpenapiMaxHandlers, OpenapiOwners, OpenapiDecls, OpenapiInSchemas,
               {"None"}, {"None"}, {DEFAULT_OUT_CODE})
OpenapiAddResource == AddResourceIn(OpenapiMaxAdds, {ClassA}, {Defaults})

NextOpenapi ==
    OpenapiCreateResource \/ OpenapiDecorate \/ OpenapiAddResource

SpecOpenapi == InitOpenapi /\ [][NextOpenapi]_vars

\* ------------------------------------------------------------------------
\* SpecShared: several classes added to one API
\* ------------------------------------------------------------------------
SharedMaxAdds == 2
SharedMaxHandlers == 2

InitShared ==
    InitWith({None, <<"/","v">>}, {None, <<"R">>}, {"camel_to_kebab"}, {IMPLICIT},
             {"None"}, {"None"}, <<ClassA, ClassB>>, {3})

SharedClasses == {ClassA, ClassB}
SharedAddArgs == {Defaults, <<None, VarI>>, <<<<"/","r">>, None>>}

SharedDecorate ==
    DecorateIn(SharedMaxHandlers, SharedClasses, {<<get, GET, None, None>>},
               {"None"}, {"None"}, {"None"}, {DEFAULT_OUT_CODE})
SharedAddResource == AddResourceIn(SharedMaxAdds, SharedClasses, SharedAddArgs)

NextShared == SharedDecorate \/ SharedAddResource

SpecShared == InitShared /\ [][NextShared]_vars

\* ------------------------------------------------------------------------
\* SpecCall: requests served by handlers with and without schemas
\* ------------------------------------------------------------------------
CallMaxRes == 1
CallMaxAdds == 1
CallMaxHandlers == 1
CallMaxReqs == 1
OutVals == {"o1", "o2"}
CallOwners == {NoClass, ClassA}
CallInSchemas == {"None", "InS", "InSStrict"}
CallOutSchemas == {"None", "OutS"}
CallCodes == {DEFAULT_OUT_CODE, 201}

InitCall ==
    InitWith({None}, {None}, {"camel_to_kebab"}, {IMPLICIT},
             {"None"}, {"None"}, <<ClassA>>, {2, 3})

CallCreateResource ==
    /\ req.pc = "idle"
    /\ CreateResourceIn(CallMaxRes, {FuncRes}, {Defaults})
CallDecorate ==
    /\ req.pc = "idle"
    /\ DecorateIn(CallMaxHandlers, CallOwners, {<<get, POST, None, None>>},
                  CallInSchemas, CallOutSchemas, {"None"}, CallCodes)
CallAddResource ==
    /\ req.pc = "idle"
    /\ AddResourceIn(CallMaxAdds, {ClassA}, {Defaults})
CallDispatch == DispatchIn(CallMaxReqs)
CallServe == Serve(OutVals)

NextCall ==
    CallCreateResource \/ CallDecorate \/ CallAddResource \/ CallDispatch \/ CallServe

SpecCall == InitCall /\ [][NextCall]_vars

\* ------------------------------------------------------------------------
\* SpecSource: requests served by handlers of every verb
\* ------------------------------------------------------------------------
SourceMaxRes == 1
SourceMaxHandlers == 1
SourceMaxReqs == 2
SourceDecls == {<<ls, m, None, None>> : m \in DOMAIN REQUESTMETHOD_TO_GETDATA}
SourceInSchemas == {"None", "InS"}
SourceGetDatas == {"None", "in_get_data"}

InitSource ==
    InitWith({None}, {None}, {"camel_to_kebab"}, {IMPLICIT},
             {"None"}, {"None"}, <<>>, {3})

SourceCreateResource ==
    /\ req.pc = "idle"
    /\ CreateResourceIn(SourceMaxRes, {FuncRes}, {Defaults})
SourceDecorate ==
    /\ req.pc = "idle"
    /\ DecorateIn(SourceMaxHandlers, {NoClass}, SourceDecls, SourceInSchemas,
                  {"None"}, SourceGetDatas, {DEFAULT_OUT_CODE})
SourceDispatch == DispatchIn(SourceMaxReqs)
SourceServe == Serve({"o1"})

NextSource == SourceCreateResource \/ SourceDecorate \/ SourceDispatch \/ SourceServe

SpecSource == InitSource /\ [][NextSource]_vars

\* ------------------------------------------------------------------------
\* Properties
\* ------------------------------------------------------------------------
\* the add_url_rule calls of the k-th _route_function invocation
RuleCalls(k) ==
    {i \in 1..Len(calls) : calls[i].type = "add_url_rule" /\ calls[i].route = k}

RulesOf(k) == {calls[i].rule : i \in RuleCalls(k)}

\* path prefix of the resource an add_resource call registered
AddedBase(ad) ==
    StrOr(apis[ad.api].base_path, <<>>)
        \o (IF Truthy(ad.res_path) THEN ad.res_path
            ELSE <<"/">> \o ApplyPfe(apis[ad.api].path_from_endpoint, ad.cls))
        \o ad.resvar_path

\* path prefix of the resource the k-th _route_function invocation routed for
BaseOf(k) ==
    IF routed[k].reg = 0 THEN resources[routed[k].res].baseabsrule
    ELSE AddedBase(added[routed[k].reg])

ActionOf(f) == IF Truthy(f._action) THEN f._action ELSE f.name

\* the rules C2 says the k-th invocation registers
ExpectedRules(k) ==
    LET f == handlers[routed[k].h]
        base == BaseOf(k) \o f._var_path
        explicit == base \o <<"/">> \o ActionOf(f)
        bmp == apis[resources[routed[k].res].api].base_method_path
    IN IF ActionOf(f) # StrLower(f._http_method) THEN {explicit}
       ELSE (IF HasBit(bmp, IMPLICIT) THEN {base} ELSE {})
            \cup (IF HasBit(bmp, EXPLICIT) THEN {explicit} ELSE {})

\* C2 (amended): every handler routed by _route_function gets exactly the
\* rules chosen as follows, and each accepts exactly the decorator's verb:
\* base + '/' + action alone when action differs from the lower-cased verb;
\* otherwise base iff base_method_path has the IMPLICIT bit and
\* base + '/' + action iff it has the EXPLICIT bit -- which is no rule at
\* all when base_method_path has neither bit.
C2_RuleChoice ==
    \A k \in 1..Len(routed) :
        /\ RulesOf(k) = ExpectedRules(k)
        /\ Cardinality(RuleCalls(k)) = Cardinality(ExpectedRules(k))
        /\ \A i \in RuleCalls(k) :
              calls[i].methods = <<handlers[routed[k].h]._http_method>>

\* C2 as stated: the same choice, and every routed handler is mapped to one
\* or more URL rules.
C2_OneOrMoreRules ==
    /\ C2_RuleChoice
    /\ \A k \in 1..Len(routed) : Cardinality(RuleCalls(k)) >= 1

\* a verb-named handler routed with both an implicit and an explicit rule,
\* and a handler whose action differs from its verb routed too
C2_Witness ==
    /\ \E k \in 1..Len(routed) : Cardinality(RuleCalls(k)) = 2
    /\ \E k \in 1..Len(routed) :
          /\ ActionOf(handlers[routed[k].h]) # StrLower(handlers[routed[k].h]._http_method)
          /\ Cardinality(RuleCalls(k)) = 1

\* the APIs from the root down to a
RECURSIVE Chain(_)
Chain(a) == IF apis[a].parent_api = 0 THEN <<a>>
            ELSE Append(Chain(apis[a].parent_api), a)

RECURSIVE Concat(_)
Concat(parts) == IF Len(parts) = 0 THEN <<>> ELSE parts[1] \o Concat(Tail(parts))

NonEmpty(parts) == SelectSeq(parts, Truthy)

ChainPaths(a) == [i \in 1..Len(Chain(a)) |-> apis[Chain(a)[i]].own_path]
ChainEndpoints(a) == [i \in 1..Len(Chain(a)) |-> apis[Chain(a)[i]].own_endpoint]

\* own endpoint name, path and var path of the resource the k-th
\* _route_function invocation routed for
ResEndpointOf(k) ==
    IF routed[k].reg = 0 THEN resources[routed[k].res].endpoint
    ELSE added[routed[k].reg].cls
ResPathOf(k) ==
    LET given == IF routed[k].reg = 0 THEN resources[routed[k].res].res_path
                 ELSE added[routed[k].reg].res_path
    IN IF Truthy(given) THEN given
       ELSE <<"/">> \o ApplyPfe(apis[resources[routed[k].res].api].path_from_endpoint,
                                ResEndpointOf(k))
ResVarPathOf(k) ==
    IF routed[k].reg = 0 THEN resources[routed[k].res].resvar_path
    ELSE added[routed[k].reg].resvar_path

\* C3: for a resource registered on an API at the end of a chain of nested
\* APIs, every URL rule registered for it starts with the path segments of
\* the chain's APIs, root first, followed by the resource's path and
\* resvar_path, and every endpoint name is the ':' join of the chain's
\* endpoint names, root first, the resource's endpoint name and the function
\* name; an empty segment or endpoint name contributes nothing, and no
\* separator.
C3_ChainComposition ==
    \A i \in 1..Len(calls) :
        calls[i].type = "add_url_rule" =>
            LET k == calls[i].route
                a == resources[routed[k].res].api
            IN /\ IsPrefix(Concat(ChainPaths(a)) \o ResPathOf(k) \o ResVarPathOf(k),
                           calls[i].rule)
               /\ calls[i].endpoint =
                      StrJoin(ENDPOINT_GLUE,
                              NonEmpty(ChainEndpoints(a))
                                  \o <<ResEndpointOf(k), handlers[routed[k].h].name>>)

\* a rule registered for a resource two levels below a root that has a path
\* but no endpoint name
C3_Witness ==
    \E i \in 1..Len(calls) :
        /\ calls[i].type = "add_url_rule"
        /\ Len(Chain(calls[i].api)) = 3
        /\ Truthy(apis[1].base_path)
        /\ ~Truthy(apis[1].base_endpoint)

\* the decorated methods in the namespace of class cls: a later def of a
\* name replaces an earlier one
DecoratedMethods(cls) ==
    {h \in 1..Len(handlers) :
        /\ handlers[h].owner = cls
        /\ handlers[h].decorated
        /\ \A g \in 1..Len(handlers) :
              (handlers[g].owner = cls /\ handlers[g].name = handlers[h].name) => g <= h}

NewRouted == {k \in 1..Len(routed') : k > Len(routed)}
NewRuleCalls ==
    {i \in 1..Len(calls') : i > Len(calls) /\ calls'[i].type = "add_url_rule"}

\* C4, applying a decorator: it stores the verb, sub-path and action on the
\* wrapper; on a class-based resource it registers no rule, on a resource
\* of functions it routes the function then, with that metadata.
C4_DecoratorStep ==
    Len(handlers') = Len(handlers) + 1 =>
        LET h == Len(handlers')
            f == handlers'[h]
        IN /\ f.decorated
           /\ f._http_method \in DOMAIN REQUESTMETHOD_TO_GETDATA
           /\ IF resources[f.res].kind = "class"
              THEN routed' = routed /\ NewRuleCalls = {}
              ELSE /\ Len(routed') = Len(routed) + 1
                   /\ routed'[Len(routed')].h = h
                   /\ \A i \in NewRuleCalls : calls'[i].view.h = h

\* C4, add_resource: it routes every decorated method of the class, once,
\* and nothing else.
C4_AddResourceStep ==
    Len(added') = Len(added) + 1 =>
        LET cls == added'[Len(added')].cls
        IN /\ {routed'[k].h : k \in NewRouted} = DecoratedMethods(cls)
           /\ Cardinality(NewRouted) = Cardinality(DecoratedMethods(cls))
           /\ \A i \in NewRuleCalls : calls'[i].view.h \in DecoratedMethods(cls)

\* C4, replay: the rules registered for a routed function are those its
\* stored verb, sub-path and action select.
C4_Replay ==
    \A k \in 1..Len(routed) :
        /\ handlers[routed[k].h].decorated
        /\ RulesOf(k) = ExpectedRules(k)

\* C4, never again: rules are only ever added, by a routing of the same
\* step, and a function of a resource of functions is routed in no step
\* but the one that decorates it.
C4_OnceStep ==
    /\ \A k \in NewRouted :
          handlers'[routed'[k].h].owner = NoClass =>
              (routed'[k].h = Len(handlers') /\ Len(handlers') = Len(handlers) + 1)
    /\ \A i \in NewRuleCalls : calls'[i].route \in NewRouted
    /\ \A i \in 1..Len(calls) : i <= Len(calls') /\ calls'[i] = calls[i]

\* C4: a verb decorator stores the metadata it was given and registration
\* replays exactly that metadata: for a class-based resource the decorators
\* register nothing and add_resource registers the rules of every decorated
\* method, and none for undecorated ones; for a resource of functions the
\* rules are registered when the decorator is applied and never again.
C4_StoreAndReplay ==
    /\ []C4_Replay
    /\ [][C4_DecoratorStep /\ C4_AddResourceStep /\ C4_OnceStep]_vars

\* a class with a decorated and an undecorated method has been added and its
\* decorated method routed, and a function of a resource of functions was
\* routed before that add_resource call
C4_Witness ==
    /\ Len(added) = 1
    /\ \E k \in 1..Len(routed) : routed[k].reg = 1 /\ RuleCalls(k) # {}
    /\ \E k \in 1..Len(routed) : routed[k].reg = 0 /\ RuleCalls(k) # {}
    /\ \E k, j \in 1..Len(routed) : routed[k].reg = 0 /\ routed[j].reg = 1 /\ k < j

PathCalls(k) == {i \in 1..Len(calls) : calls[i].type = "path" /\ calls[i].route = k}
SchemaCalls(a) == {i \in 1..Len(calls) : calls[i].type = "schema" /\ calls[i].api = a}
ApiOf(h) == resources[handlers[h].res].api

\* C6: on an API with an OpenAPI spec every routed handler is passed to
\* path() exactly once per routing, after its rules, however many they are,
\* and every in_schema given to a verb decorator of the API is registered
\* as a component under its class name; on an API without a spec neither
\* path() nor components.schema() is called; openapi_conf wins over
\* openapi_spec.
C6_Openapi ==
    /\ \A a \in 1..Len(apis) :
          /\ apis[a].openapi_spec =
                 (IF apis[a].arg_conf # "None" THEN "APISpec(conf)"
                  ELSE apis[a].arg_spec)
          /\ LET given == {h \in 1..Len(handlers) :
                              /\ handlers[h].decorated
                              /\ handlers[h].in_schema # "None"
                              /\ ApiOf(h) = a}
             IN IF apis[a].openapi_spec = "None"
                THEN \A i \in 1..Len(calls) :
                         calls[i].api = a => calls[i].type = "add_url_rule"
                ELSE /\ Cardinality(SchemaCalls(a)) = Cardinality(given)
                     /\ \A h \in given : \E i \in SchemaCalls(a) :
                            calls[i].name = SchemaClassName(handlers[h].in_schema)
    /\ \A k \in 1..Len(routed) :
          IF apis[resources[routed[k].res].api].openapi_spec = "None"
          THEN PathCalls(k) = {}
          ELSE /\ Cardinality(PathCalls(k)) = 1
               /\ \A i \in PathCalls(k) :
                     /\ calls[i].view = [h |-> routed[k].h, inst |-> routed[k].inst]
                     /\ \A j \in RuleCalls(k) : j < i

\* an API built with both openapi_conf and openapi_spec, a verb-named
\* handler with an in_schema routed on it with two rules
C6_Witness ==
    /\ apis[1].arg_conf # "None" /\ apis[1].arg_spec # "None"
    /\ \E k \in 1..Len(routed) :
          /\ Cardinality(RuleCalls(k)) = 2
          /\ handlers[routed[k].h].in_schema # "None"
          /\ PathCalls(k) # {}
    /\ SchemaCalls(1) # {}

\* endpoint prefix of the resource an add_resource call registered
AddedEndpoint(ad) ==
    IF Truthy(apis[ad.api].base_endpoint)
    THEN apis[ad.api].base_endpoint \o ENDPOINT_GLUE \o ad.cls
    ELSE ad.cls

\* C8, state: every rule registered during an add_resource call carries the
\* path prefix and the endpoint prefix of the resource of that call.
C8_OwnPrefixes ==
    \A i \in 1..Len(calls) :
        (calls[i].type = "add_url_rule" /\ calls[i].reg > 0) =>
            LET ad == added[calls[i].reg]
                f == handlers[calls[i].view.h]
            IN /\ calls[i].api = ad.api
               /\ f.owner = ad.cls
               /\ IsPrefix(AddedBase(ad), calls[i].rule)
               /\ calls[i].endpoint = AddedEndpoint(ad) \o ENDPOINT_GLUE \o f.name

\* C8, step: the API's one ResourceFromClass object takes the prefixes of
\* the resource being added, and the rules registered before stay as they
\* were.
C8_Step ==
    /\ Len(added') = Len(added) + 1 =>
          LET ad == added'[Len(added')]
              rfc == resources'[apis[ad.api].resource_from_class]
          IN /\ rfc.baseabsrule = AddedBase(ad)
             /\ rfc.res_endpoint = AddedEndpoint(ad)
    /\ \A i \in 1..Len(calls) : i <= Len(calls') /\ calls'[i] = calls[i]

\* C8: the class-based resources of an API share its ResourceFromClass
\* object, whose prefixes each add_resource overwrites; still every rule
\* registered for a resource carries that resource's own prefixes, and
\* later calls leave earlier rules unchanged.
C8_SharedObject == []C8_OwnPrefixes /\ [][C8_Step]_vars

\* two classes added to the same API with different prefixes, each with a
\* rule registered
C8_Witness ==
    /\ Len(added) = 2
    /\ added[1].api = added[2].api
    /\ added[1].cls # added[2].cls
    /\ AddedBase(added[1]) # AddedBase(added[2])
    /\ \E i, j \in 1..Len(calls) :
          /\ calls[i].type = "add_url_rule" /\ calls[i].reg = 1
          /\ calls[j].type = "add_url_rule" /\ calls[j].reg = 2

IsSource(x) == x \in {"request.args", "request.get_json", "in_get_data"}
InLog(x) == \E i \in 1..Len(req.log) : req.log[i] = x

\* the argument the user function received as its input
InputArg == IF resources[handlers[req.h].res].kind = "functions"
            THEN req.called[1] ELSE req.called[2]

\* C1: for every request served by a decorated handler the steps happen in
\* this order, each at most once: the request data is obtained, decoded
\* through in_schema if there is one, the user function is called once with
\* the decoded data as input, its return value is encoded through
\* out_schema if there is one, and the result is returned with out_code
\* (200 unless configured), whatever the function returned.  A request
\* that ends early by an exception has done a prefix of these steps.
C1_Steps ==
    req.pc # "idle" =>
        LET f == handlers[req.h]
            steps == (IF f.in_schema # "None" THEN <<"load">> ELSE <<>>)
                     \o <<"call">>
                     \o (IF f.out_schema # "None" THEN <<"jsonify">> ELSE <<>>)
                     \o <<"return">>
            raw == [kind |-> "raw", src |-> req.log[1], id |-> req.id,
                    valid |-> req.valid, val |-> "None", errors |-> FALSE]
            decoded == IF f.in_schema # "None" THEN [raw EXCEPT !.kind = "loaded"]
                       ELSE raw
        IN /\ req.log # <<>> =>
                 /\ IsSource(req.log[1])
                 /\ IsPrefix(Tail(req.log), steps)
           /\ InLog("call") =>
                 /\ InputArg = decoded
                 /\ Len(req.called) = Len(req.args) + 1
                 /\ resources[f.res].kind = "class" => req.called[1] = req.args[1]
           /\ req.pc = "done" =>
                 /\ Tail(req.log) = steps
                 /\ req.outdata.kind = "out"
                 /\ req.body = (IF f.out_schema # "None"
                                THEN [req.outdata EXCEPT !.kind = "json"]
                                ELSE req.outdata)
                 /\ req.code = f.out_code

\* a request answered by a method of a class-based resource with both
\* schemas, under Marshmallow 2, with a configured out_code
C1_Witness ==
    /\ req.pc = "done"
    /\ mm = 2
    /\ handlers[req.h].in_schema # "None"
    /\ handlers[req.h].out_schema # "None"
    /\ handlers[req.h].out_code # DEFAULT_OUT_CODE
    /\ resources[handlers[req.h].res].kind = "class"

\* C5: when decoding through in_schema fails, the user function is not
\* called, out_schema is not applied and nothing is returned; the request
\* ends with the schema library's ValidationError and no other error, and
\* the wrapper builds no response of its own.  When Marshmallow 2 returns a
\* result without errors the function receives the result's data.
C5_DecodeFailure ==
    req.pc # "idle" =>
        LET f == handlers[req.h]
        IN /\ (f.in_schema # "None" /\ ~req.valid) =>
                 /\ req.pc \in {"get_data", "load", "unwrap", "raised"}
                 /\ ~InLog("call") /\ ~InLog("jsonify") /\ ~InLog("return")
                 /\ req.called = <<>>
                 /\ req.pc = "raised" => req.error = "ValidationError"
           /\ req.pc = "raised" => req.body = NoData /\ req.code = 0
           /\ (InLog("call") /\ f.in_schema # "None") =>
                 /\ InputArg.kind = "loaded"
                 /\ ~InputArg.errors

\* under Marshmallow 2 a schema that is not strict returned a result with
\* errors and the request ended with ValidationError
C5_Witness ==
    /\ req.pc = "raised"
    /\ mm = 2
    /\ handlers[req.h].in_schema = "InS"
    /\ InLog("load")
    /\ req.error = "ValidationError"

\* C7: the request data is taken from in_get_data alone when it is given,
\* for every verb; otherwise from the query arguments alone for DELETE,
\* GET, HEAD and OPTIONS and from the JSON body alone for PATCH, POST and
\* PUT; it is read once per request, from the request being served.
C7_Source ==
    LET f == handlers[req.h]
        expected == IF f.in_get_data # "None" THEN "in_get_data"
                    ELSE IF f._http_method \in {DELETE, GET, HEAD, OPTIONS}
                    THEN "request.args"
                    ELSE "request.get_json"
    IN /\ req.pc \in {"idle", "get_data"} => req.log = <<>>
       /\ req.pc \notin {"idle", "get_data"} =>
             /\ SelectSeq(req.log, IsSource) = <<expected>>
             /\ req.id = nreq
             /\ (req.pc = "load" \/ (req.pc = "unwrap" /\ f.in_schema = "None")) =>
                    req.indata = [kind |-> "raw", src |-> expected, id |-> nreq,
                                  valid |-> req.valid, val |-> "None",
                                  errors |-> FALSE]

\* the second request to a PUT handler without in_get_data, its data read
\* and about to be handed to the schema
C7_Witness ==
    /\ nreq = 2
    /\ req.pc = "load"
    /\ handlers[req.h]._http_method = PUT
    /\ handlers[req.h].in_get_data = "None"

\* C9: a unit without an explicit path gets '/' + path_from_endpoint(its own
\* endpoint name): resources of functions, class-based resources, and
\* sub-APIs appended without base_path; so two sub-APIs of one parent with
\* different base_endpoints and no base_path have different base_paths.
C9_DefaultPaths ==
    /\ \A r \in 1..Len(resources) :
          (resources[r].kind = "functions" /\ ~Truthy(resources[r].res_path)) =>
              resources[r].baseabsrule =
                  apis[resources[r].api].base_path \o <<"/">>
                      \o ApplyPfe(apis[resources[r].api].path_from_endpoint,
                                  resources[r].endpoint)
                      \o resources[r].resvar_path
    /\ \A n \in 1..Len(added) :
          (~Truthy(added[n].res_path)
              /\ \A m \in 1..Len(added) : added[m].api = added[n].api => m <= n) =>
              resources[apis[added[n].api].resource_from_class].baseabsrule =
                  apis[added[n].api].base_path \o <<"/">>
                      \o ApplyPfe(apis[added[n].api].path_from_endpoint, added[n].cls)
                      \o added[n].resvar_path
    /\ \A a \in 1..Len(apis) :
          (apis[a].parent_api # 0 /\ ~Truthy(apis[a].arg_path)) =>
              apis[a].own_path =
                  <<"/">> \o ApplyPfe(apis[a].path_from_endpoint, apis[a].arg_endpoint)
    /\ \A a, b \in 1..Len(apis) :
          (/\ apis[a].parent_api # 0
           /\ apis[a].parent_api = apis[b].parent_api
           /\ apis[a].arg_endpoint # apis[b].arg_endpoint
           /\ ~Truthy(apis[a].arg_path) /\ ~Truthy(apis[b].arg_path)) =>
              apis[a].base_path # apis[b].base_path

\* C10: a sub-API made by append_api has the base_method_path and the
\* path_from_endpoint of its parent, at any depth.
C10_Inherits ==
    \A a \in 1..Len(apis) :
        apis[a].parent_api # 0 =>
            /\ apis[a].base_method_path = apis[apis[a].parent_api].base_method_path
            /\ apis[a].path_from_endpoint = apis[apis[a].parent_api].path_from_endpoint
====
